---- MODULE Spec2Model ----
(***************************************************************************)
(* Session-based authentication and role-gated routing of the web client:  *)
(* the AuthProvider context (src/src/contexts/AuthContext.tsx), the route  *)
(* guard ProtectedRoute (src/unnamed/part_000) and the ConnectionStatus    *)
(* banner (src/src/components/ui/ConnectionStatus.tsx).                    *)
(*                                                                         *)
(* The hosted auth service and the profiles table are the environment:     *)
(* authSession, accounts and db are their state, and every awaited call of *)
(* the code is answered by an action of its own, so that the awaits of the *)
(* bootstrap, of the listener, of signUp and of signOut interleave as they *)
(* do in the single-threaded event loop.                                   *)
(***************************************************************************)
EXTENDS Integers, Sequences, FiniteSets, Bags, TLC

(* ------------------------------ bounds -------------------------------- *)

\* Events the environment starts in one application lifetime: signIn, signUp
\* and signOut calls, unsolicited session notifications of the auth service,
\* and the teardown of the provider.
MaxOps == 2

\* Browser online/offline events recorded in the banner's history.
MaxNetEvents == 6

(* ------------------------------ values -------------------------------- *)

Null == "null"

Users == {"u1", "u2"}

Roles == {"admin", "student"}

Tokens == {"t1", "t2"}

\* The accounts that exist when the application starts; the others sign up.
InitialAccounts == {"u1"}

\* A session of the auth service: its user and its (refreshable) token.
Sessions == [user : Users, token : Tokens]

\* A row of the profiles table, reduced to its key and its role.
Profiles == [id : Users, role : Roles]

OtherToken(t) == IF t = "t1" THEN "t2" ELSE "t1"

\* The absent session and the absent profile (null), shaped as the present ones.
NoSession == [user |-> Null, token |-> Null]

NoProfile == [id |-> Null, role |-> Null]

\* newSession?.user ?? null
SessionUser(s) == s.user

(* --------------------------- error messages --------------------------- *)

MsgFailedToFetch ==
    <<"F","a","i","l","e","d"," ","t","o"," ","f","e","t","c","h">>

MsgNetworkError ==
    <<"N","e","t","w","o","r","k","E","r","r","o","r"," ","w","h","e","n"," ","a","t","t","e","m","p","t","i","n","g"," ","t","o"," ","f","e","t","c","h"," ","r","e","s","o","u","r","c","e",".">>

MsgInvalidCredentials ==
    <<"I","n","v","a","l","i","d"," ","l","o","g","i","n"," ","c","r","e","d","e","n","t","i","a","l","s">>

MsgUnableToConnect ==
    <<"U","n","a","b","l","e"," ","t","o"," ","c","o","n","n","e","c","t"," ","t","o"," ","t","h","e"," ","d","a","t","a","b","a","s","e","."," ","P","l","e","a","s","e"," ","c","h","e","c","k"," ","y","o","u","r"," ","i","n","t","e","r","n","e","t"," ","c","o","n","n","e","c","t","i","o","n"," ","a","n","d"," ","t","r","y"," ","a","g","a","i","n",".">>

MsgNotConfigured ==
    <<"D","a","t","a","b","a","s","e"," ","c","o","n","n","e","c","t","i","o","n"," ","n","o","t"," ","c","o","n","f","i","g","u","r","e","d","."," ","P","l","e","a","s","e"," ","c","h","e","c","k"," ","e","n","v","i","r","o","n","m","e","n","t"," ","v","a","r","i","a","b","l","e","s",".">>

MsgAuthFailed ==
    <<"A","u","t","h","e","n","t","i","c","a","t","i","o","n"," ","f","a","i","l","e","d">>

SubFailedToFetch ==
    <<"F","a","i","l","e","d"," ","t","o"," ","f","e","t","c","h">>

SubFetch ==
    <<"f","e","t","c","h">>

\* String.prototype.includes on character sequences.
Includes(msg, sub) ==
    \E i \in 1..(Len(msg) - Len(sub) + 1) : SubSeq(msg, i, i + Len(sub) - 1) = sub

\* An Error object: its constructor name and its message.
MkError(name, message) == [name |-> name, message |-> message]

NoError == [name |-> "none", message |-> <<>>]

(* ------------------------------ state --------------------------------- *)

VARIABLES
    user,            \* useState<User | null>: the user's id, or Null
    profile,         \* useState<Profile | null>
    session,         \* useState<Session | null>
    loading,         \* useState(true)
    initialized,     \* useState(false)
    effect,          \* the provider's effect: "pending", "mounted", "unmounted"
    timer,           \* timeoutId of the bootstrap: "unset", "pending", "fired", "cleared"
    initPc,          \* initializeAuth: "idle", "getSession", "answered", "fetch", "done"
    initAnswer,      \* what getSession resolved to, not yet seen by initializeAuth
    fetches,         \* bag of fetchUserProfile invocations in flight
    lastFetch,       \* the fetchUserProfile invocation whose insert has just returned
    authSession,     \* auth service: its current session, or Null
    accounts,        \* auth service: the users that have an account
    db,              \* profiles table: user id -> role, or "none"
    subscribed,      \* whether handleAuthStateChange is subscribed to the service
    missed,          \* a notification was emitted during the bootstrap with no listener
    signUpCall,      \* the signUp awaiting the insert of its profile row, if any
    lastReturn,      \* the signIn or signUp that has just returned, and with what
    signedOut,       \* how the last signOut ended, until the next operation: "no",
                     \* "ok", "error", "throw"
    urlSet,          \* import.meta.env.VITE_SUPABASE_URL is set
    keySet,          \* import.meta.env.VITE_SUPABASE_ANON_KEY is set
    isOnline,        \* ConnectionStatus: useState(navigator.onLine)
    showOfflineMessage, \* ConnectionStatus: useState(false)
    netEvents,       \* the online/offline events the browser has dispatched
    ops              \* operations started so far (bounded by MaxOps)

authState == <<user, profile, session, loading, initialized>>

effectVars == <<effect, subscribed, timer, initPc, initAnswer>>

serviceVars == <<authSession, accounts, db, missed>>

callVars == <<signUpCall, lastReturn, signedOut>>

configVars == <<urlSet, keySet>>

bannerVars == <<isOnline, showOfflineMessage, netEvents>>

vars == <<authState, effectVars, fetches, lastFetch, serviceVars, callVars,
          configVars, bannerVars, ops>>

\* `mounted` of the effect closure: true from the effect's run to its cleanup.
mounted == effect = "mounted"

\* `initialized` as the effect closure reads it: the effect has no
\* dependencies, so its callbacks keep the value of the first render.
ClosureInitialized == FALSE

NoFetch == [uid |-> Null, insert |-> "none", result |-> NoProfile]

NoSignUp == [pc |-> "idle", uid |-> Null, role |-> Null]

\* A returned call: the operation, what the service did (cause), the user and
\* role it was about, and the error of the { error } it returned.
Return(op, cause, uid, role, error) ==
    [op |-> op, cause |-> cause, uid |-> uid, role |-> role, error |-> error]

NoReturn == Return("none", "none", Null, Null, NoError)

NoAnswer == [kind |-> "none", session |-> NoSession]

AuthInit ==
    /\ user = Null
    /\ profile = NoProfile
    /\ session = NoSession
    /\ loading = TRUE
    /\ initialized = FALSE
    /\ effect = "pending"
    /\ subscribed = FALSE
    /\ timer = "unset"
    /\ initPc = "idle"
    /\ initAnswer = NoAnswer
    /\ fetches = EmptyBag
    /\ lastFetch = NoFetch
    /\ accounts = InitialAccounts
    /\ authSession \in {NoSession, [user |-> "u1", token |-> "t1"]}
    /\ db = [u \in Users |-> "none"]
    /\ missed = FALSE
    /\ signUpCall = NoSignUp
    /\ lastReturn = NoReturn
    /\ signedOut = "no"
    /\ ops = 0

\* ConnectionStatus after its first render, navigator.onLine being `online`.
BannerInit(online) ==
    /\ isOnline = online
    /\ showOfflineMessage = FALSE
    /\ netEvents = <<>>

\* The two configuration values of the build.
ConfigInit(url, key) ==
    /\ urlSet = url
    /\ keySet = key

Init == AuthInit /\ ConfigInit(TRUE, TRUE) /\ BannerInit(TRUE)

(* --------------------------- fetchUserProfile -------------------------- *)

\* clearTimeout(timeoutId): only a pending timer is cancelled.
ClearTimeout(t) == IF t = "pending" THEN "cleared" ELSE t

\* A new invocation of fetchUserProfile(userId), awaiting the lookup race.
NewFetch(caller, uid) == [caller |-> caller, uid |-> uid, pc |-> "lookup"]

\* The 5000 ms timer of invocation f is armed and has not gone off: the timer
\* is started before the lookup and nothing ever clears it, so it is pending
\* at least for as long as the race is undecided.
FetchTimerPending(f) == f.pc = "lookup"

\* One more operation is started, within the bound.
StartOp == ops < MaxOps /\ ops' = ops + 1

\* What the caller does with the awaited result of fetchUserProfile.  The
\* listener sets the profile if still mounted; initializeAuth does the same and
\* then runs its finally block.
FetchReturn(f, result) ==
    /\ profile' = IF mounted THEN result ELSE profile
    /\ IF f.caller = "init"
       THEN /\ initPc' = "done"
            /\ timer' = IF mounted THEN ClearTimeout(timer) ELSE timer
            /\ loading' = IF mounted THEN FALSE ELSE loading
            /\ initialized' = IF mounted THEN TRUE ELSE initialized
       ELSE UNCHANGED <<initPc, timer, loading, initialized>>
    /\ UNCHANGED <<user, session, effect, subscribed, initAnswer>>

\* Mutant of FetchLookup: every failure of the lookup is taken for a missing
\* row, and the creation of the default profile goes ahead.
FetchLookup_CreatesOnAnyFailure(f, outcome) ==
    /\ BagIn(f, fetches)
    /\ f.pc = "lookup"
    /\ IF outcome # "answer" \/ db[f.uid] = "none"
       THEN /\ fetches' = (fetches (-) SetToBag({f}))
                          (+) SetToBag({[f EXCEPT !.pc = "getUser"]})
            /\ UNCHANGED <<authState, effectVars>>
       ELSE /\ fetches' = fetches (-) SetToBag({f})
            /\ FetchReturn(f, [id |-> f.uid, role |-> db[f.uid]])
    /\ UNCHANGED <<serviceVars, signUpCall, signedOut, configVars, bannerVars>>
    /\ UNCHANGED ops
    /\ lastFetch' = NoFetch
    /\ lastReturn' = NoReturn

\* The race of the lookup and the 5000 ms timer is decided.  An answer of the
\* table is the row, or PGRST116 when there is none; the other outcomes are
\* another error, a rejected query promise and the timer winning the race.
FetchLookup(f, outcome) ==
    /\ BagIn(f, fetches)
    /\ f.pc = "lookup"
    /\ IF outcome = "answer" /\ db[f.uid] = "none"
       THEN /\ fetches' = (fetches (-) SetToBag({f}))
                          (+) SetToBag({[f EXCEPT !.pc = "getUser"]})
            /\ UNCHANGED <<authState, effectVars>>
       ELSE LET result == IF outcome = "answer"
                          THEN [id |-> f.uid, role |-> db[f.uid]]
                          ELSE NoProfile
            IN  /\ fetches' = fetches (-) SetToBag({f})
                /\ FetchReturn(f, result)
    /\ UNCHANGED <<serviceVars, signUpCall, signedOut, configVars, bannerVars>>
    /\ UNCHANGED ops
    /\ lastFetch' = NoFetch
    /\ lastReturn' = NoReturn

\* supabase.auth.getUser() is answered: the user of the service's session, or
\* none; a rejected promise lands in the catch block.
FetchGetUser(f, outcome) ==
    /\ BagIn(f, fetches)
    /\ f.pc = "getUser"
    /\ IF outcome = "answer" /\ authSession # NoSession
       THEN /\ fetches' = (fetches (-) SetToBag({f}))
                          (+) SetToBag({[f EXCEPT !.pc = "insert"]})
            /\ UNCHANGED <<authState, effectVars>>
       ELSE /\ fetches' = fetches (-) SetToBag({f})
            /\ FetchReturn(f, NoProfile)
    /\ UNCHANGED <<serviceVars, signUpCall, signedOut, configVars, bannerVars>>
    /\ UNCHANGED ops
    /\ lastFetch' = NoFetch
    /\ lastReturn' = NoReturn

\* The insert of the default profile is answered.  The table's primary key is
\* the user id: the insert of a second row for the same id is refused.
FetchInsert(f, outcome) ==
    /\ BagIn(f, fetches)
    /\ f.pc = "insert"
    /\ LET ins == IF outcome # "answer" THEN outcome
                  ELSE IF db[f.uid] = "none" THEN "ok" ELSE "duplicate"
           result == IF ins = "ok" THEN [id |-> f.uid, role |-> "student"] ELSE NoProfile
       IN  /\ db' = IF ins = "ok" THEN [db EXCEPT ![f.uid] = "student"] ELSE db
           /\ lastFetch' = [uid |-> f.uid, insert |-> ins, result |-> result]
           /\ FetchReturn(f, result)
    /\ fetches' = fetches (-) SetToBag({f})
    /\ UNCHANGED <<authSession, accounts, missed, signUpCall, signedOut, configVars, bannerVars>>
    /\ UNCHANGED ops
    /\ lastReturn' = NoReturn

(* --------------------------- the effect ------------------------------- *)

\* Mutant of HandleAuthStateChange: the listener shows the loading state again
\* while it fetches the profile.
HandleAuthStateChange_SetsLoading(event, newSession) ==
    /\ session' = newSession
    /\ user' = SessionUser(newSession)
    /\ IF newSession # NoSession /\ event # "TOKEN_REFRESHED"
       THEN /\ fetches' = fetches (+) SetToBag({NewFetch("listener", newSession.user)})
            /\ loading' = TRUE
            /\ UNCHANGED profile
       ELSE /\ profile' = IF newSession = NoSession THEN NoProfile ELSE profile
            /\ UNCHANGED <<fetches, loading>>
    /\ UNCHANGED initialized

\* Mutant of HandleAuthStateChange: the profile is fetched again on a refreshed
\* token as on any other event.
HandleAuthStateChange_RefetchOnRefresh(event, newSession) ==
    /\ session' = newSession
    /\ user' = SessionUser(newSession)
    /\ IF newSession # NoSession
       THEN /\ fetches' = fetches (+) SetToBag({NewFetch("listener", newSession.user)})
            /\ UNCHANGED profile
       ELSE /\ profile' = NoProfile
            /\ UNCHANGED fetches
    /\ UNCHANGED <<loading, initialized>>

\* handleAuthStateChange(event, newSession), up to its first await.
HandleAuthStateChange(event, newSession) ==
    /\ session' = newSession
    /\ user' = SessionUser(newSession)
    /\ IF newSession # NoSession /\ event # "TOKEN_REFRESHED"
       THEN /\ fetches' = fetches (+) SetToBag({NewFetch("listener", newSession.user)})
            /\ UNCHANGED profile
       ELSE /\ profile' = IF newSession = NoSession THEN NoProfile ELSE profile
            /\ UNCHANGED fetches
    /\ UNCHANGED <<loading, initialized>>

\* The auth service notifies its subscribers of (event, newSession).
Notify(event, newSession) ==
    IF subscribed /\ mounted
    THEN HandleAuthStateChange(event, newSession) /\ UNCHANGED missed
    ELSE /\ missed' = (missed \/ (initPc # "idle" /\ effect # "unmounted"))
         /\ UNCHANGED <<authState, fetches>>

\* Mutant of Mount: the effect starts the bootstrap and has not subscribed the
\* listener.
Mount_WithoutListener ==
    /\ effect = "pending"
    /\ effect' = "mounted"
    /\ subscribed' = FALSE
    /\ timer' = "pending" /\ initPc' = "getSession"
    /\ UNCHANGED <<authState, initAnswer, fetches, serviceVars, signUpCall, signedOut,
                   configVars, bannerVars>>
    /\ UNCHANGED ops
    /\ lastFetch' = NoFetch
    /\ lastReturn' = NoReturn

\* The effect runs: it subscribes the listener, then calls initializeAuth,
\* which arms the 8000 ms timer and awaits getSession.
Mount ==
    /\ effect = "pending"
    /\ effect' = "mounted"
    /\ subscribed' = TRUE
    /\ IF ClosureInitialized
       THEN UNCHANGED <<timer, initPc>>
       ELSE timer' = "pending" /\ initPc' = "getSession"
    /\ UNCHANGED <<authState, initAnswer, fetches, serviceVars, signUpCall, signedOut,
                   configVars, bannerVars>>
    /\ UNCHANGED ops
    /\ lastFetch' = NoFetch
    /\ lastReturn' = NoReturn

\* The auth service resolves getSession: with its current session, with an
\* error result, or by rejecting.
GetSessionAnswer(kind) ==
    /\ initPc = "getSession"
    /\ initPc' = "answered"
    /\ initAnswer' = [kind |-> kind,
                      session |-> IF kind = "ok" THEN authSession ELSE NoSession]
    /\ UNCHANGED <<authState, effect, subscribed, timer, fetches, serviceVars, signUpCall, signedOut, configVars, bannerVars>>
    /\ UNCHANGED ops
    /\ lastFetch' = NoFetch
    /\ lastReturn' = NoReturn

\* The finally block of initializeAuth.
InitFinally ==
    /\ timer' = IF mounted THEN ClearTimeout(timer) ELSE timer
    /\ loading' = IF mounted THEN FALSE ELSE loading
    /\ initialized' = IF mounted THEN TRUE ELSE initialized

\* initializeAuth resumes after `await supabase.auth.getSession()`.
InitResume ==
    /\ initPc = "answered"
    /\ initAnswer' = NoAnswer
    /\ IF mounted /\ initAnswer.kind = "ok" /\ initAnswer.session # NoSession
       THEN /\ session' = initAnswer.session
            /\ user' = initAnswer.session.user
            /\ fetches' = fetches (+) SetToBag({NewFetch("init", initAnswer.session.user)})
            /\ initPc' = "fetch"
            /\ UNCHANGED <<profile, loading, initialized, timer>>
       ELSE /\ user' = IF mounted THEN Null ELSE user
            /\ profile' = IF mounted THEN NoProfile ELSE profile
            /\ session' = IF mounted THEN NoSession ELSE session
            /\ InitFinally
            /\ initPc' = "done"
            /\ UNCHANGED fetches
    /\ lastReturn' = NoReturn
    /\ UNCHANGED <<effect, subscribed, serviceVars, signUpCall,
                   configVars, bannerVars>>
    /\ UNCHANGED ops
    /\ lastFetch' = NoFetch
    /\ signedOut' = "no"

\* Mutant of TimeoutCallback: the callback marks the bootstrap as done but
\* leaves loading as it is.
TimeoutCallback_KeepsLoading ==
    /\ initialized' = IF mounted /\ ~ClosureInitialized THEN TRUE ELSE initialized
    /\ UNCHANGED loading

\* The callback of the 8000 ms timer.
TimeoutCallback ==
    /\ loading' = IF mounted /\ ~ClosureInitialized THEN FALSE ELSE loading
    /\ initialized' = IF mounted /\ ~ClosureInitialized THEN TRUE ELSE initialized

BootstrapTimeout ==
    /\ timer = "pending"
    /\ timer' = "fired"
    /\ TimeoutCallback
    /\ UNCHANGED <<user, profile, session, effect, subscribed, initPc, initAnswer,
                   fetches, serviceVars, signUpCall, signedOut, configVars, bannerVars>>
    /\ UNCHANGED ops
    /\ lastFetch' = NoFetch
    /\ lastReturn' = NoReturn

\* The effect's cleanup; React runs it when the provider is torn down, which
\* counts as one event of the environment.
Unmount ==
    /\ effect = "mounted"
    /\ effect' = "unmounted"
    /\ timer' = ClearTimeout(timer)
    /\ subscribed' = FALSE
    /\ StartOp
    /\ UNCHANGED <<authState, initPc, initAnswer, fetches, serviceVars,
                   signUpCall, signedOut, configVars, bannerVars>>
    /\ lastFetch' = NoFetch
    /\ lastReturn' = NoReturn

\* The auth service reports a session transition that no call of this client
\* asked for: the initial session after subscribing, a refreshed token, or the
\* end of the session.
ServiceEvent(event) ==
    /\ mounted
    /\ StartOp
    /\ event \in {"INITIAL_SESSION", "TOKEN_REFRESHED", "SIGNED_OUT"}
    /\ event # "INITIAL_SESSION" => authSession # NoSession
    /\ authSession' = CASE event = "INITIAL_SESSION" -> authSession
                         [] event = "TOKEN_REFRESHED" ->
                              [authSession EXCEPT !.token = OtherToken(@)]
                         [] OTHER -> NoSession
    /\ Notify(event, authSession')
    /\ lastReturn' = NoReturn
    /\ UNCHANGED <<effectVars, accounts, db, signUpCall,
                   configVars, bannerVars>>
    /\ lastFetch' = NoFetch
    /\ signedOut' = "no"

(* ------------------------- signIn, signUp, signOut --------------------- *)

\* Mutant of supabaseConfigured: one configuration value is taken to be enough.
supabaseConfigured_Either == urlSet \/ keySet

\* !!(VITE_SUPABASE_URL && VITE_SUPABASE_ANON_KEY)
supabaseConfigured == urlSet /\ keySet

\* Errors of the profiles table, by their code: a second row for a primary
\* key (23505) and an insert the table's policy refuses (42501).
DuplicateKeyError == MkError("PostgrestError", <<"2","3","5","0","5">>)

PolicyError == MkError("PostgrestError", <<"4","2","5","0","1">>)

\* What signInWithPassword can resolve to: a session of an account, data with
\* no user or session, an error result (rejected credentials, or a fetch that
\* failed), or a rejected promise (the fetch failure thrown).
SignInResponses ==
    [kind : {"session"}, user : accounts, cause : {"ok"}, err : {NoError}]
    \cup {[kind |-> "empty", user |-> Null, cause |-> "nouser", err |-> NoError],
          [kind |-> "error", user |-> Null, cause |-> "credential",
           err |-> MkError("AuthApiError", MsgInvalidCredentials)],
          [kind |-> "error", user |-> Null, cause |-> "unreachable",
           err |-> MkError("AuthRetryableFetchError", MsgFailedToFetch)],
          [kind |-> "error", user |-> Null, cause |-> "unreachable",
           err |-> MkError("AuthRetryableFetchError", MsgNetworkError)],
          [kind |-> "throw", user |-> Null, cause |-> "unreachable-thrown",
           err |-> MkError("TypeError", MsgFailedToFetch)]}

\* The error signIn returns for an error result of signInWithPassword.
MapSignInError(err) ==
    IF Includes(err.message, SubFailedToFetch) \/ Includes(err.message, SubFetch)
    THEN MkError("Error", MsgUnableToConnect)
    ELSE err

\* The { error } signIn returns for response r of the service.
SignInResult(r) ==
    CASE r.kind = "error" -> MapSignInError(r.err)
      [] r.kind = "throw" -> r.err
      [] r.kind = "empty" -> MkError("Error", MsgAuthFailed)
      [] OTHER -> NoError

\* signIn(email, password).  A successful sign-in makes the service hold the
\* new session and notify its subscribers; signIn itself sets no state.
SignIn(r) ==
    /\ mounted
    /\ StartOp
    /\ r \in SignInResponses
    /\ IF ~supabaseConfigured
       THEN /\ lastReturn' = Return("signIn", "config", Null, Null,
                                    MkError("Error", MsgNotConfigured))
            /\ UNCHANGED <<authState, fetches, authSession, missed>>
       ELSE /\ lastReturn' = Return("signIn", r.cause, r.user, Null, SignInResult(r))
            /\ IF r.kind = "session"
               THEN /\ authSession' = [user |-> r.user, token |-> "t1"]
                    /\ Notify("SIGNED_IN", authSession')
               ELSE UNCHANGED <<authState, fetches, authSession, missed>>
    /\ UNCHANGED <<effectVars, accounts, db, signUpCall, configVars,
                   bannerVars>>
    /\ lastFetch' = NoFetch
    /\ signedOut' = "no"

\* What supabase.auth.signUp can resolve to other than a created account: data
\* without a user, an error result, or a rejected promise.
SignUpFailure(kind) ==
    CASE kind = "error" -> MkError("AuthApiError", MsgInvalidCredentials)
      [] kind = "throw" -> MkError("TypeError", MsgFailedToFetch)
      [] OTHER -> NoError

\* signUp(email, password, fullName, role) up to its second await: the service
\* answers supabase.auth.signUp.  A created account may come with a session
\* (no e-mail confirmation), which the service reports to its subscribers.
SignUpCall(kind, u, role, withSession) ==
    /\ mounted
    /\ StartOp
    /\ signUpCall.pc = "idle"
    /\ kind \in {"created", "nouser", "error", "throw"}
    /\ IF kind = "created"
       THEN /\ u \notin accounts
            /\ accounts' = accounts \cup {u}
            /\ signUpCall' = [pc |-> "insert", uid |-> u, role |-> role]
            /\ lastReturn' = NoReturn
            /\ IF withSession
               THEN /\ authSession' = [user |-> u, token |-> "t1"]
                    /\ Notify("SIGNED_IN", authSession')
               ELSE UNCHANGED <<authState, fetches, authSession, missed>>
       ELSE /\ lastReturn' = Return("signUp", kind, Null, role, SignUpFailure(kind))
            /\ UNCHANGED <<authState, fetches, authSession, accounts, missed,
                           signUpCall>>
    /\ UNCHANGED <<effectVars, db, configVars, bannerVars>>
    /\ lastFetch' = NoFetch
    /\ signedOut' = "no"

\* The error with which an insert into the profiles table fails: the error of
\* the table's answer, or the error the rejected request throws.
InsertError(ins) ==
    CASE ins = "duplicate" -> DuplicateKeyError
      [] ins = "rejected" -> PolicyError
      [] OTHER -> MkError("TypeError", MsgFailedToFetch)

\* Mutant of SignUpResult: a failed insert is logged and signUp reports success.
SignUpResult_SwallowsInsertError(ins) == NoError

\* The { error } signUp returns once the insert of its profile row has ended
\* as `ins`.
SignUpResult(ins) == IF ins = "ok" THEN NoError ELSE InsertError(ins)

\* The insert of signUp's profile row is answered; signUp returns.
SignUpInsert(outcome) ==
    /\ signUpCall.pc = "insert"
    /\ outcome \in {"answer", "rejected", "throw"}
    /\ LET ins == IF outcome # "answer" THEN outcome
                  ELSE IF db[signUpCall.uid] = "none" THEN "ok" ELSE "duplicate"
       IN  /\ db' = IF ins = "ok" THEN [db EXCEPT ![signUpCall.uid] = signUpCall.role]
                     ELSE db
           /\ lastReturn' = Return("signUp", ins, signUpCall.uid, signUpCall.role,
                                   SignUpResult(ins))
    /\ signUpCall' = NoSignUp
    /\ UNCHANGED <<authState, effectVars, fetches, authSession, accounts,
                   missed, signedOut, configVars, bannerVars, ops>>
    /\ lastFetch' = NoFetch

\* The statements of signOut after `await supabase.auth.signOut()`.
SignOutClear ==
    /\ user' = Null
    /\ profile' = NoProfile
    /\ session' = NoSession

\* signOut().  The remote call succeeds (the service drops the session and
\* reports SIGNED_OUT, which the listener handles by clearing the same three
\* fields), resolves to an error result, or rejects.
SignOut(outcome) ==
    /\ mounted
    /\ StartOp
    /\ outcome \in {"ok", "error", "throw"}
    /\ signedOut' = outcome
    /\ lastReturn' = NoReturn
    /\ authSession' = IF outcome = "ok" THEN NoSession ELSE authSession
    /\ IF outcome = "throw"
       THEN UNCHANGED <<user, profile, session>>
       ELSE SignOutClear
    /\ UNCHANGED <<loading, initialized, effectVars, fetches, accounts, db,
                   missed, signUpCall, configVars, bannerVars>>
    /\ lastFetch' = NoFetch

(* ----------------------------- ProtectedRoute -------------------------- *)

\* Mutant of ProtectedRoute: a role mismatch is treated like a missing user.
ProtectedRoute_MismatchToLogin(requireAdmin, requireStudent) ==
    CASE loading -> "loading"
      [] ~loading /\ user = Null -> "redirect:/login"
      [] ~loading /\ user # Null /\ profile = NoProfile -> "profile-pending"
      [] OTHER ->
           IF requireAdmin /\ profile.role # "admin" THEN "redirect:/login"
           ELSE IF requireStudent /\ profile.role # "student" THEN "redirect:/login"
           ELSE "children"

\* Mutant of ProtectedRoute: the guard does not look at the user.
ProtectedRoute_IgnoresUser(requireAdmin, requireStudent) ==
    CASE loading -> "loading"
      [] ~loading /\ profile = NoProfile ->
           IF user = Null THEN "redirect:/login" ELSE "profile-pending"
      [] OTHER ->
           IF requireAdmin /\ profile.role # "admin" THEN "redirect:/dashboard"
           ELSE IF requireStudent /\ profile.role # "student" THEN "redirect:/admin"
           ELSE "children"

\* What ProtectedRoute renders from the current AuthState.
ProtectedRoute(requireAdmin, requireStudent) ==
    CASE loading -> "loading"
      [] ~loading /\ user = Null -> "redirect:/login"
      [] ~loading /\ user # Null /\ profile = NoProfile -> "profile-pending"
      [] OTHER ->
           IF requireAdmin /\ profile.role # "admin" THEN "redirect:/dashboard"
           ELSE IF requireStudent /\ profile.role # "student" THEN "redirect:/admin"
           ELSE "children"

(* ---------------------------- ConnectionStatus ------------------------- *)

handleOnline ==
    /\ isOnline' = TRUE
    /\ showOfflineMessage' = FALSE

\* Mutant of handleOffline: the handler records the offline state without
\* asking for the message.
handleOffline_NoMessage ==
    /\ isOnline' = FALSE
    /\ UNCHANGED showOfflineMessage

handleOffline ==
    /\ isOnline' = FALSE
    /\ showOfflineMessage' = TRUE

\* The browser dispatches an online or offline event to the window.
NetEvent(e) ==
    /\ Len(netEvents) < MaxNetEvents
    /\ netEvents' = Append(netEvents, e)
    /\ IF e = "online" THEN handleOnline ELSE handleOffline
    /\ UNCHANGED <<authState, effectVars, fetches, serviceVars, signUpCall, signedOut,
                   configVars>>
    /\ UNCHANGED ops
    /\ lastFetch' = NoFetch
    /\ lastReturn' = NoReturn

\* What ConnectionStatus renders.
Banner ==
    IF ~supabaseConfigured THEN "config-error"
    ELSE IF ~isOnline /\ showOfflineMessage THEN "offline"
    ELSE "none"

(* ---------------------------- specifications --------------------------- *)

FetchStep ==
    \E f \in BagToSet(fetches) :
        \/ \E o \in {"answer", "error", "throw", "timeout"} : FetchLookup(f, o)
        \/ \E o \in {"answer", "throw"} : FetchGetUser(f, o)
        \/ \E o \in {"answer", "rejected", "throw"} : FetchInsert(f, o)

Next ==
    \/ Mount
    \/ \E k \in {"ok", "error", "throw"} : GetSessionAnswer(k)
    \/ InitResume
    \/ BootstrapTimeout
    \/ Unmount
    \/ FetchStep
    \/ \E e \in {"INITIAL_SESSION", "TOKEN_REFRESHED", "SIGNED_OUT"} : ServiceEvent(e)
    \/ \E r \in SignInResponses : SignIn(r)
    \/ \E k \in {"created", "nouser", "error", "throw"}, u \in Users, role \in Roles,
          ws \in BOOLEAN : SignUpCall(k, u, role, ws)
    \/ \E o \in {"answer", "rejected", "throw"} : SignUpInsert(o)
    \/ \E o \in {"ok", "error", "throw"} : SignOut(o)

Spec == Init /\ [][Next]_vars

\* The effect runs after the first render and a timer that stays armed goes
\* off; nothing makes the auth service or the profiles table ever answer.
FairSpec == Spec /\ WF_vars(Mount) /\ WF_vars(BootstrapTimeout)

\* The banner alone, from either value of navigator.onLine.
BannerNext == \E e \in {"online", "offline"} : NetEvent(e)

BannerInitAll ==
    /\ AuthInit
    /\ \E url, key \in BOOLEAN : ConfigInit(url, key)
    /\ \E online \in BOOLEAN : BannerInit(online)

BannerSpec == BannerInitAll /\ [][BannerNext]_vars

\* The values the state takes.
TypeOK ==
    /\ user \in Users \cup {Null}
    /\ session \in Sessions \cup {NoSession}
    /\ profile \in Profiles \cup {NoProfile}
    /\ loading \in BOOLEAN /\ initialized \in BOOLEAN
    /\ effect \in {"pending", "mounted", "unmounted"}
    /\ subscribed = mounted
    /\ timer \in {"unset", "pending", "fired", "cleared"}
    /\ initPc \in {"idle", "getSession", "answered", "fetch", "done"}
    /\ authSession \in Sessions \cup {NoSession}
    /\ accounts \subseteq Users
    /\ db \in [Users -> Roles \cup {"none"}]
    /\ \A f \in BagToSet(fetches) :
           f.uid \in Users /\ f.pc \in {"lookup", "getUser", "insert"}
                           /\ f.caller \in {"init", "listener"}
    /\ signedOut \in {"no", "ok", "error", "throw"}
    /\ ops \in 0..MaxOps

(* ------------------------------- claims -------------------------------- *)

\* C1: in every reachable AuthState, profile != null implies user != null
\* (equivalently user == null implies profile == null).
C1_ProfileImpliesUser == profile # NoProfile => user # Null

\* C2: once signOut has returned, whatever the remote call did, user, profile
\* and session are all null, and stay so while the profile fetches that were
\* pending complete.
C2_SignOutClears ==
    signedOut # "no" => (user = Null /\ profile = NoProfile /\ session = NoSession)

\* C3: loading is true initially and never goes from false back to true.
C3_LoadingMonotone == (loading = TRUE) /\ [][loading = FALSE => loading' = FALSE]_vars

\* C3 witness: loading has ended by both the timer and the end of the bootstrap,
\* and operations have run since the start.
C3_Witness == ~loading /\ timer = "fired" /\ initPc = "done" /\ ops > 0

\* C4: while the provider stays mounted, loading eventually becomes false.
C4_LoadingEnds == <>(~loading \/ effect = "unmounted")

\* C4 witness: loading has ended while the bootstrap still awaits getSession or
\* the lazy creation of the profile, neither of which has answered.
C4_Witness ==
    /\ ~loading
    /\ mounted
    /\ \/ initPc = "getSession"
       \/ /\ initPc = "fetch"
          /\ \E f \in BagToSet(fetches) : f.caller = "init" /\ f.pc = "insert"

\* C5: an invocation of fetchUserProfile that found no row, with the
\* authenticated user available and its insert answered by the table, has
\* created the row with role student and returns that row.  Stated for the
\* users that never sign up, whose rows only fetchUserProfile creates.
C5_FetchCreatesAndReturns ==
    (lastFetch.insert \in {"ok", "duplicate"} /\ lastFetch.uid \in InitialAccounts) =>
        /\ lastFetch.result = [id |-> lastFetch.uid, role |-> "student"]
        /\ db[lastFetch.uid] = "student"

\* C6: a signUp whose account was created and whose insert the table answered
\* returns no error, and the row of the new user carries the requested role.
C6_SignUpCreatesRequestedRole ==
    (lastReturn.op = "signUp" /\ lastReturn.cause \in {"ok", "duplicate"}) =>
        /\ lastReturn.error = NoError
        /\ db[lastReturn.uid] = lastReturn.role

\* C7: signIn returns the TransportUnreachable error when the backend is
\* unreachable, as an error result or as a thrown failure, and another error
\* when the credentials are rejected.
C7_TransportUnreachableDistinct ==
    lastReturn.op = "signIn" =>
        /\ lastReturn.cause \in {"unreachable", "unreachable-thrown"} =>
               lastReturn.error = MkError("Error", MsgUnableToConnect)
        /\ lastReturn.cause = "credential" =>
               lastReturn.error # MkError("Error", MsgUnableToConnect)

\* C8: with loading false, a user and a profile, a role mismatch redirects to
\* the default route of the role (/dashboard from a requireAdmin route, /admin
\* from a requireStudent route) and nothing redirects to /login.
C8_RoleMismatchRedirect ==
    (~loading /\ user # Null /\ profile # NoProfile) =>
        \A ra, rs \in BOOLEAN :
            /\ ProtectedRoute(ra, rs) # "redirect:/login"
            /\ (ra /\ profile.role # "admin") =>
                   ProtectedRoute(ra, rs) = "redirect:/dashboard"
            /\ (rs /\ profile.role # "student") =>
                   ProtectedRoute(ra, rs) = "redirect:/admin"

\* C8 witness: a student profile on a requireAdmin route is sent to /dashboard.
C8_Witness ==
    /\ ~loading
    /\ user # Null
    /\ profile # NoProfile
    /\ profile.role = "student"
    /\ ProtectedRoute(TRUE, FALSE) = "redirect:/dashboard"

\* The last online/offline event the browser dispatched, or "none".
LastNetEvent == IF netEvents = <<>> THEN "none" ELSE netEvents[Len(netEvents)]

\* C9: with the configuration present, the offline banner is shown exactly
\* when an offline event has been observed and no online event since.
C9_OfflineBanner ==
    (urlSet /\ keySet) => ((Banner = "offline") <=> (LastNetEvent = "offline"))

\* C9 witness: the browser started offline, the banner appeared on an offline
\* event and is gone after the online event that followed.
C9_Witness ==
    /\ urlSet /\ keySet
    /\ Len(netEvents) >= 2
    /\ netEvents[Len(netEvents) - 1] = "offline"
    /\ LastNetEvent = "online"
    /\ Banner = "none"

\* C10: with either configuration value missing, the configuration-error
\* banner is shown in every state and the offline banner never.
C10_ConfigErrorBanner ==
    (~urlSet \/ ~keySet) => (Banner = "config-error" /\ Banner # "offline")

\* C10 witness: one value is missing and the last event was an offline event.
C10_Witness ==
    /\ urlSet /\ ~keySet
    /\ LastNetEvent = "offline"
    /\ ~isOnline /\ showOfflineMessage
    /\ Banner = "config-error"

\* A step in which the service notifies the listener of a session with a user
\* by an event other than TOKEN_REFRESHED.
SessionEventDelivered ==
    \/ ServiceEvent("INITIAL_SESSION") /\ authSession # NoSession
    \/ \E r \in SignInResponses : r.kind = "session" /\ SignIn(r)
    \/ \E u \in Users, role \in Roles : SignUpCall("created", u, role, TRUE)

\* C11: the listener, called with TOKEN_REFRESHED and a session with a user,
\* sets user and session to the new session, starts no profile fetch and
\* leaves profile as it is; called with a session without a user it sets
\* profile to null; called with any other event and a session with a user it
\* starts exactly one profile fetch, for that user.
C11_ListenerFrame ==
    [][ /\ ServiceEvent("TOKEN_REFRESHED") =>
              /\ session' = authSession' /\ user' = authSession'.user
              /\ fetches' = fetches /\ profile' = profile
        /\ (ServiceEvent("SIGNED_OUT") \/ (ServiceEvent("INITIAL_SESSION") /\ authSession = NoSession)) =>
              /\ session' = NoSession /\ user' = Null
              /\ profile' = NoProfile /\ fetches' = fetches
        /\ SessionEventDelivered =>
              /\ session' = authSession' /\ user' = authSession'.user
              /\ fetches' = fetches (+) SetToBag({NewFetch("listener", user')})
              /\ profile' = profile
      ]_vars

\* C11 witness: the session in AuthState carries the refreshed token, the
\* profile fetched before the refresh is still there and no fetch is pending.
C11_Witness ==
    /\ mounted
    /\ session # NoSession /\ session.token = "t2" /\ session = authSession
    /\ user = session.user
    /\ profile # NoProfile /\ profile.id = user
    /\ fetches = EmptyBag

\* C12: when the 5000 ms timer wins the race, when the lookup answers with an
\* error other than "no row", and when the lookup throws, fetchUserProfile
\* ends there: it inserts no row, its caller receives null (and sets the
\* profile to null if still mounted) and carries on as after any result, with
\* user and session untouched.
C12_FetchFailureYieldsNull ==
    [][ \A f \in BagToSet(fetches) : \A o \in {"timeout", "error", "throw"} :
            FetchLookup(f, o) =>
                /\ db' = db
                /\ fetches' = fetches (-) SetToBag({f})
                /\ mounted => profile' = NoProfile
                /\ user' = user /\ session' = session
                /\ f.caller = "init" => initPc' = "done"
                /\ (f.caller = "init" /\ mounted) => ~loading'
      ]_vars

\* C12 witness: the bootstrap, with no other operation, has ended for a signed
\* in user with a null profile, no row in the table and nothing pending.
C12_Witness ==
    /\ mounted /\ ops = 0
    /\ user # Null /\ authSession.user = user
    /\ profile = NoProfile
    /\ db[user] = "none"
    /\ fetches = EmptyBag /\ lastFetch = NoFetch
    /\ initPc = "done" /\ ~loading /\ timer = "cleared"

\* C13: once the cleanup of the effect has run, no step changes user, profile,
\* session or loading, and no timer the provider started is still pending:
\* neither the 8000 ms timer of the bootstrap nor the 5000 ms timer of a
\* profile fetch.
C13_TeardownSuppresses ==
    /\ [][effect = "unmounted" => UNCHANGED <<user, profile, session, loading>>]_vars
    /\ [](effect = "unmounted" =>
             /\ timer # "pending"
             /\ \A f \in BagToSet(fetches) : ~FetchTimerPending(f))

\* C14: from the moment the bootstrap has issued getSession until teardown the
\* listener is subscribed, and no notification of the service in that time
\* has gone without a call of handleAuthStateChange.
C14_ListenerBeforeBootstrap ==
    /\ (initPc # "idle" /\ effect # "unmounted") => subscribed
    /\ ~missed

\* C14 witness: while the bootstrap still awaits getSession, the service has
\* reported a session and the listener has taken it up.
C14_Witness ==
    /\ mounted /\ initPc = "getSession" /\ ops > 0
    /\ session # NoSession /\ session = authSession /\ user = session.user
    /\ \E f \in BagToSet(fetches) : f.caller = "listener" /\ f.uid = user

\* The provider is mounted and nothing it started is pending: the bootstrap
\* has ended and no fetchUserProfile and no signUp is in flight.
Quiescent ==
    /\ mounted
    /\ initPc = "done"
    /\ fetches = EmptyBag
    /\ signUpCall.pc = "idle"

\* C15: once the bootstrap and the handling of every delivered event have
\* finished, the session and the user in AuthState are those of the session
\* state the service reported last.  The service reports every change of its
\* session to the mounted provider, so a session or user held in AuthState
\* must be the one the service holds now.
C15_LastWriteWins ==
    Quiescent =>
        /\ session # NoSession => session = authSession
        /\ user # Null => user = authSession.user

\* C16: a step in which loading becomes false because getSession failed (an
\* error result or a rejection) or because the 8000 ms timer went off leaves
\* user, profile and session null.
C16_FailureClearsState ==
    [][ ( /\ loading /\ ~loading'
          /\ \/ BootstrapTimeout
             \/ InitResume /\ initAnswer.kind \in {"error", "throw"} )
        => (user' = Null /\ profile' = NoProfile /\ session' = NoSession)
      ]_vars

\* C17: whenever AuthState holds a user and a profile, the profile is the
\* row of that user.
C17_ProfileOfCurrentUser ==
    (user # Null /\ profile # NoProfile) => profile.id = user

\* C18: in every reachable AuthState and for both flags, ProtectedRoute
\* renders its children only if loading is false, user and profile are
\* non-null and the role of the profile is admin if requireAdmin and student
\* if requireStudent.
C18_ChildrenOnlyWhenAuthorized ==
    \A ra, rs \in BOOLEAN :
        ProtectedRoute(ra, rs) = "children" =>
            /\ ~loading
            /\ user # Null
            /\ profile # NoProfile
            /\ ra => profile.role = "admin"
            /\ rs => profile.role = "student"

\* C18 witness: after loading, a profile is held while the user is null, and
\* the guard sends every route to /login.
C18_Witness ==
    /\ ~loading
    /\ user = Null
    /\ profile # NoProfile
    /\ \A ra, rs \in BOOLEAN : ProtectedRoute(ra, rs) = "redirect:/login"

\* C19: when the insert of signUp's profile row fails after the account was
\* created, signUp returns the error of that insert, the account stays, no
\* other insert is issued and the step changes nothing of AuthState.
C19_SignUpPartialFailure ==
    [][ ( /\ signUpCall.pc = "insert"
          /\ lastReturn'.op = "signUp"
          /\ lastReturn'.cause \in {"duplicate", "rejected", "throw"} )
        => /\ lastReturn'.error = InsertError(lastReturn'.cause)
           /\ lastReturn'.error # NoError
           /\ lastReturn'.uid = signUpCall.uid
           /\ signUpCall.uid \in accounts /\ accounts' = accounts
           /\ db' = db
           /\ signUpCall' = NoSignUp
           /\ UNCHANGED <<user, profile, session, loading>>
      ]_vars

\* C19 witness: signUp has just returned the error of the refused insert; the
\* new account exists and has no profile row.
C19_Witness ==
    /\ lastReturn.op = "signUp"
    /\ lastReturn.cause = "rejected"
    /\ lastReturn.error = PolicyError
    /\ lastReturn.uid \in accounts \ InitialAccounts
    /\ db[lastReturn.uid] = "none"
    /\ signUpCall = NoSignUp

\* C20: while AuthState holds a user and the profile of that user, the end of
\* another fetchUserProfile for the same user, the user staying, does not set
\* the profile to null.
C20_ProfileStays ==
    [][ ( /\ user # Null /\ profile # NoProfile /\ profile.id = user
          /\ user' = user
          /\ \E f \in BagToSet(fetches) :
                 f.uid = user /\ fetches' = fetches (-) SetToBag({f}) )
        => profile' # NoProfile ]_vars

====
